---- MODULE Spec2Model ----
(***************************************************************************)
(* Model of tools/generate_astrovpn_profile.py: the astrovpn:// profile    *)
(* encoder, the decoder and the command dispatcher main().                 *)
(*                                                                         *)
(* Text (Python str) is a sequence of Unicode code points, bytes are a     *)
(* sequence of numbers 0..255.  The standard-library conversions the       *)
(* script calls (json.dumps, str.encode, base64.b64encode,                 *)
(* base64.b64decode, bytes.decode, json.loads) are computed symbol by      *)
(* symbol as CPython 3 computes them.                                      *)
(***************************************************************************)
EXTENDS Integers, Sequences, FiniteSets, TLC

(***************************************************************************)
(* Bounds of the model.                                                    *)
(***************************************************************************)
\* longest value of the name field on the generate path
MaxNameLen == 2
\* longest raw payload text, over RawBytes, offered to the decoder
MaxRawLen == 2
\* library calls recorded in one interpreter session (SessionSpec)
MaxCalls == 2

(***************************************************************************)
(* The script as a state machine.                                           *)
(*   argv         sys.argv                                                  *)
(*   pc           "main": main() is about to run (the script is executed); *)
(*                "imported": the module is imported, main() is not run    *)
(*                (line 92) and its functions are called; "exited"         *)
(*   stdout       the print calls made, each [line, arg]: the source line  *)
(*                of the print and the value it formats                    *)
(*   exit_status  the process exit status, -1 while running                *)
(*   branches     the branches of main() entered so far                    *)
(*   calls        the calls of the two functions made so far, each         *)
(*                [fn, args, ret]                                          *)
(***************************************************************************)
VARIABLES argv, pc, stdout, exit_status, branches, calls
vars == <<argv, pc, stdout, exit_status, branches, calls>>

(***************************************************************************)
(* Literals of the script, as code points.                                 *)
(***************************************************************************)
\* 'astrovpn://'
SCHEME == <<97, 115, 116, 114, 111, 118, 112, 110, 58, 47, 47>>
\* "generate"
CMD_GENERATE == <<103, 101, 110, 101, 114, 97, 116, 101>>
\* "decode"
CMD_DECODE == <<100, 101, 99, 111, 100, 101>>
\* the keys of the profile literal
K_name == <<110, 97, 109, 101>>
K_server == <<115, 101, 114, 118, 101, 114>>
K_domain_service == <<100, 111, 109, 97, 105, 110, 95, 115, 101, 114, 118, 105, 99, 101>>
K_key_url == <<107, 101, 121, 95, 117, 114, 108>>
K_description == <<100, 101, 115, 99, 114, 105, 112, 116, 105, 111, 110>>

(***************************************************************************)
(* JSON values as Python holds them.  A dict is the sequence of its        *)
(* <<key, value>> pairs in insertion order, keys unique.                   *)
(***************************************************************************)
JStr(s) == [t |-> "str", v |-> s]
JDict(pairs) == [t |-> "dict", v |-> pairs]
JList(items) == [t |-> "list", v |-> items]
JInt(n) == [t |-> "int", v |-> <<n>>]
\* a float keeps its lexeme; True/False/None/nan/inf keep the JSON token
JFloat(lexeme) == [t |-> "float", v |-> lexeme]
JConst(token) == [t |-> "const", v |-> token]

\* d[k] = val on a dict: replace in place, or append a new key
DictSet(pairs, k, val) ==
  IF \E i \in 1..Len(pairs) : pairs[i][1] = k
  THEN [i \in 1..Len(pairs) |-> IF pairs[i][1] = k THEN <<k, val>> ELSE pairs[i]]
  ELSE Append(pairs, <<k, val>>)

(***************************************************************************)
(* json.dumps(obj, separators=(',', ':')) with the default                 *)
(* ensure_ascii=True, for str and for dict of str.                         *)
(***************************************************************************)
HexDigit(n) == IF n < 10 THEN 48 + n ELSE 97 + (n - 10)

\* '\\u{0:04x}'
UEscape(n) ==
  <<92, 117, HexDigit(n \div 4096), HexDigit((n \div 256) % 16),
    HexDigit((n \div 16) % 16), HexDigit(n % 16)>>

\* EscapeChar without its escapes: every character is written as it is
EscapeChar_raw(c) == <<c>>

\* json.encoder.py_encode_basestring_ascii, one character
EscapeChar(c) ==
  IF c = 34 THEN <<92, 34>>
  ELSE IF c = 92 THEN <<92, 92>>
  ELSE IF c = 10 THEN <<92, 110>>
  ELSE IF c = 13 THEN <<92, 114>>
  ELSE IF c = 9 THEN <<92, 116>>
  ELSE IF c = 8 THEN <<92, 98>>
  ELSE IF c = 12 THEN <<92, 102>>
  ELSE IF c >= 32 /\ c <= 126 THEN <<c>>
  ELSE IF c < 65536 THEN UEscape(c)
  ELSE UEscape(55296 + ((c - 65536) \div 1024)) \o UEscape(56320 + ((c - 65536) % 1024))

\* the escapes of s[lo..hi], in order
RECURSIVE EscapeRange(_, _, _)
EscapeRange(s, lo, hi) ==
  IF lo > hi THEN <<>>
  ELSE IF lo = hi THEN EscapeChar(s[lo])
  ELSE LET mid == (lo + hi) \div 2 IN
       EscapeRange(s, lo, mid) \o EscapeRange(s, mid + 1, hi)

encode_basestring_ascii(s) == <<34>> \o EscapeRange(s, 1, Len(s)) \o <<34>>

RECURSIVE DumpPairsFrom(_, _)
DumpPairsFrom(pairs, i) ==
  IF i > Len(pairs) THEN <<>>
  ELSE (IF i > 1 THEN <<44>> ELSE <<>>)
       \o encode_basestring_ascii(pairs[i][1]) \o <<58>>
       \o encode_basestring_ascii(pairs[i][2].v)
       \o DumpPairsFrom(pairs, i + 1)

json_dumps(obj) ==
  IF obj.t = "str" THEN encode_basestring_ascii(obj.v)
  ELSE <<123>> \o DumpPairsFrom(obj.v, 1) \o <<125>>

(***************************************************************************)
(* str.encode('utf-8') / .encode('ascii') and bytes.decode(...)            *)
(***************************************************************************)
Utf8Char(c) ==
  IF c < 128 THEN <<c>>
  ELSE IF c < 2048 THEN <<192 + (c \div 64), 128 + (c % 64)>>
  ELSE IF c < 65536
    THEN <<224 + (c \div 4096), 128 + ((c \div 64) % 64), 128 + (c % 64)>>
  ELSE <<240 + (c \div 262144), 128 + ((c \div 4096) % 64),
         128 + ((c \div 64) % 64), 128 + (c % 64)>>

RECURSIVE Utf8Range(_, _, _)
Utf8Range(s, lo, hi) ==
  IF lo > hi THEN <<>>
  ELSE IF lo = hi THEN Utf8Char(s[lo])
  ELSE LET mid == (lo + hi) \div 2 IN
       Utf8Range(s, lo, mid) \o Utf8Range(s, mid + 1, hi)

IsSurrogate(c) == c >= 55296 /\ c <= 57343

\* s.encode('utf-8'): UnicodeEncodeError on a lone surrogate
utf8_encode(s) ==
  IF \E i \in 1..Len(s) : IsSurrogate(s[i])
  THEN [ok |-> FALSE, bytes |-> <<>>]
  ELSE [ok |-> TRUE, bytes |-> Utf8Range(s, 1, Len(s))]

\* bytes.decode('utf-8'), strict, as the decoder's automaton: need is the
\* number of continuation bytes still due, lo..hi the range the next one
\* must lie in (it excludes overlong forms, surrogates and code points
\* above U+10FFFF), cp the code point so far; ok = FALSE is
\* UnicodeDecodeError
Utf8Start == [ok |-> TRUE, need |-> 0, cp |-> 0, lo |-> 128, hi |-> 191, text |-> <<>>]

Utf8Step(st, b) ==
  IF ~st.ok THEN st
  ELSE IF st.need = 0
    THEN IF b < 128 THEN [st EXCEPT !.text = Append(@, b)]
         ELSE IF b >= 194 /\ b <= 223
           THEN [st EXCEPT !.need = 1, !.cp = b - 192, !.lo = 128, !.hi = 191]
         ELSE IF b >= 224 /\ b <= 239
           THEN [st EXCEPT !.need = 2, !.cp = b - 224,
                           !.lo = IF b = 224 THEN 160 ELSE 128,
                           !.hi = IF b = 237 THEN 159 ELSE 191]
         ELSE IF b >= 240 /\ b <= 244
           THEN [st EXCEPT !.need = 3, !.cp = b - 240,
                           !.lo = IF b = 240 THEN 144 ELSE 128,
                           !.hi = IF b = 244 THEN 143 ELSE 191]
         ELSE [st EXCEPT !.ok = FALSE]
  ELSE IF b < st.lo \/ b > st.hi THEN [st EXCEPT !.ok = FALSE]
  ELSE LET cp == st.cp * 64 + (b - 128) IN
       IF st.need = 1
       THEN [st EXCEPT !.need = 0, !.cp = 0, !.lo = 128, !.hi = 191,
                       !.text = Append(@, cp)]
       ELSE [st EXCEPT !.need = @ - 1, !.cp = cp, !.lo = 128, !.hi = 191]

\* the automaton run over b[lo..hi], left to right
RECURSIVE Utf8Loop(_, _, _, _)
Utf8Loop(b, lo, hi, st) ==
  IF lo > hi THEN st
  ELSE IF lo = hi THEN Utf8Step(st, b[lo])
  ELSE LET mid == (lo + hi) \div 2
           left == Utf8Loop(b, lo, mid, st)
       IN IF ~left.ok THEN left ELSE Utf8Loop(b, mid + 1, hi, left)

utf8_decode(b) ==
  LET st == Utf8Loop(b, 1, Len(b), Utf8Start) IN
  IF st.ok /\ st.need = 0 THEN [ok |-> TRUE, text |-> st.text]
  ELSE [ok |-> FALSE, text |-> <<>>]

(***************************************************************************)
(* base64.b64encode(b).decode('ascii')                                     *)
(***************************************************************************)
\* the standard alphabet A-Z a-z 0-9 + /
B64Char(n) ==
  IF n < 26 THEN 65 + n
  ELSE IF n < 52 THEN 97 + (n - 26)
  ELSE IF n < 62 THEN 48 + (n - 52)
  ELSE IF n = 62 THEN 43 ELSE 47

\* the four characters of the group of (up to) three bytes starting at b[i]
B64Group(b, i) ==
  LET n == Len(b) - i + 1 IN
  IF n = 1
    THEN <<B64Char(b[i] \div 4), B64Char((b[i] % 4) * 16), 61, 61>>
  ELSE IF n = 2
    THEN <<B64Char(b[i] \div 4), B64Char((b[i] % 4) * 16 + (b[i + 1] \div 16)),
           B64Char((b[i + 1] % 16) * 4), 61>>
  ELSE <<B64Char(b[i] \div 4), B64Char((b[i] % 4) * 16 + (b[i + 1] \div 16)),
         B64Char((b[i + 1] % 16) * 4 + (b[i + 2] \div 64)), B64Char(b[i + 2] % 64)>>

\* the groups numbered lo..hi (group g starts at byte 3g - 2), in order
RECURSIVE B64Groups(_, _, _)
B64Groups(b, lo, hi) ==
  IF lo > hi THEN <<>>
  ELSE IF lo = hi THEN B64Group(b, 3 * lo - 2)
  ELSE LET mid == (lo + hi) \div 2 IN
       B64Groups(b, lo, mid) \o B64Groups(b, mid + 1, hi)

b64encode(b) == B64Groups(b, 1, (Len(b) + 2) \div 3)

(***************************************************************************)
(* base64.b64decode(s) with the default validate=False:                    *)
(* binascii.a2b_base64 in its non-strict mode.                             *)
(***************************************************************************)
\* table_a2b_base64: the 6-bit value of a character, 64 for any other
B64Value(ch) ==
  IF ch >= 65 /\ ch <= 90 THEN ch - 65
  ELSE IF ch >= 97 /\ ch <= 122 THEN ch - 97 + 26
  ELSE IF ch >= 48 /\ ch <= 57 THEN ch - 48 + 52
  ELSE IF ch = 43 THEN 62
  ELSE IF ch = 47 THEN 63
  ELSE 64

\* the loop's variables before any character is read
A2bStart == [quad_pos |-> 0, leftchar |-> 0, pads |-> 0, out |-> <<>>, done |-> FALSE]

\* one turn of the loop of a2b_base64 on the character ch; done is the
\* "goto done" of a complete pad sequence
A2bStep(st, ch) ==
  LET v == B64Value(ch) IN
  IF st.done THEN st
  ELSE IF ch = 61
    THEN IF st.quad_pos >= 2 /\ st.quad_pos + st.pads + 1 >= 4
         THEN [st EXCEPT !.done = TRUE]
         ELSE IF st.quad_pos >= 2 THEN [st EXCEPT !.pads = @ + 1] ELSE st
  ELSE IF v >= 64 THEN st
  ELSE IF st.quad_pos = 0
    THEN [st EXCEPT !.quad_pos = 1, !.leftchar = v, !.pads = 0]
  ELSE IF st.quad_pos = 1
    THEN [st EXCEPT !.quad_pos = 2, !.leftchar = v % 16, !.pads = 0,
                    !.out = Append(@, st.leftchar * 4 + (v \div 16))]
  ELSE IF st.quad_pos = 2
    THEN [st EXCEPT !.quad_pos = 3, !.leftchar = v % 4, !.pads = 0,
                    !.out = Append(@, st.leftchar * 16 + (v \div 4))]
  ELSE [st EXCEPT !.quad_pos = 0, !.leftchar = 0, !.pads = 0,
                  !.out = Append(@, st.leftchar * 64 + v)]

\* the loop over s[lo..hi], left to right
RECURSIVE A2bLoop(_, _, _, _)
A2bLoop(s, lo, hi, st) ==
  IF lo > hi THEN st
  ELSE IF lo = hi THEN A2bStep(st, s[lo])
  ELSE LET mid == (lo + hi) \div 2
           left == A2bLoop(s, lo, mid, st)
       IN IF left.done THEN left ELSE A2bLoop(s, mid + 1, hi, left)

a2b_base64(s) ==
  LET st == A2bLoop(s, 1, Len(s), A2bStart) IN
  IF ~st.done /\ st.quad_pos # 0 THEN [ok |-> FALSE, bytes |-> <<>>]
  ELSE [ok |-> TRUE, bytes |-> st.out]

\* a str argument is first encoded as ASCII (ValueError otherwise)
b64decode(s) ==
  IF \E i \in 1..Len(s) : s[i] > 127
  THEN [ok |-> FALSE, bytes |-> <<>>]
  ELSE a2b_base64(s)

(***************************************************************************)
(* json.loads(text): json.decoder.JSONDecoder.decode with the C scanner.   *)
(* A parse result is [ok, val, next]: next is the index after the value.   *)
(***************************************************************************)
ParseFail == [ok |-> FALSE, val |-> <<>>, next |-> 0]
ParseOk(val, next) == [ok |-> TRUE, val |-> val, next |-> next]

\* WHITESPACE = [ \t\n\r]*
RECURSIVE SkipWs(_, _)
SkipWs(s, i) ==
  IF i <= Len(s) /\ s[i] \in {32, 9, 10, 13} THEN SkipWs(s, i + 1) ELSE i

IsDigit(c) == c >= 48 /\ c <= 57
IsHex(c) == IsDigit(c) \/ (c >= 97 /\ c <= 102) \/ (c >= 65 /\ c <= 70)
HexVal(c) == IF IsDigit(c) THEN c - 48 ELSE IF c >= 97 THEN c - 87 ELSE c - 55
Hex4Ok(s, i) == \A k \in 0..3 : IsHex(s[i + k])
Hex4(s, i) ==
  HexVal(s[i]) * 4096 + HexVal(s[i + 1]) * 256 + HexVal(s[i + 2]) * 16 + HexVal(s[i + 3])

\* the character a one-letter escape stands for, 0 when it is no escape
Unescape(e) ==
  IF e = 34 \/ e = 92 \/ e = 47 THEN e
  ELSE IF e = 98 THEN 8
  ELSE IF e = 102 THEN 12
  ELSE IF e = 110 THEN 10
  ELSE IF e = 114 THEN 13
  ELSE IF e = 116 THEN 9
  ELSE 0

\* scanstring_unicode(strict=1); i is the index after the opening quote
RECURSIVE scanstring(_, _, _)
scanstring(s, i, acc) ==
  IF i > Len(s) THEN ParseFail
  ELSE LET c == s[i] IN
    IF c = 34 THEN ParseOk(acc, i + 1)
    ELSE IF c <= 31 THEN ParseFail
    ELSE IF c # 92 THEN scanstring(s, i + 1, Append(acc, c))
    ELSE IF i + 1 > Len(s) THEN ParseFail
    ELSE IF s[i + 1] # 117
      THEN IF Unescape(s[i + 1]) = 0 THEN ParseFail
           ELSE scanstring(s, i + 2, Append(acc, Unescape(s[i + 1])))
    ELSE IF i + 6 > Len(s) THEN ParseFail
    ELSE IF ~Hex4Ok(s, i + 2) THEN ParseFail
    ELSE LET u == Hex4(s, i + 2) IN
      IF u >= 55296 /\ u <= 56319 /\ i + 12 <= Len(s)
         /\ s[i + 6] = 92 /\ s[i + 7] = 117
      THEN IF ~Hex4Ok(s, i + 8) THEN ParseFail
           ELSE LET u2 == Hex4(s, i + 8) IN
             IF u2 >= 56320 /\ u2 <= 57343
             THEN scanstring(s, i + 12,
                    Append(acc, 65536 + (u - 55296) * 1024 + (u2 - 56320)))
             ELSE scanstring(s, i + 6, Append(acc, u))
      ELSE scanstring(s, i + 6, Append(acc, u))

RECURSIVE SkipDigits(_, _)
SkipDigits(s, i) == IF i <= Len(s) /\ IsDigit(s[i]) THEN SkipDigits(s, i + 1) ELSE i

RECURSIVE DigitsValue(_, _, _, _)
DigitsValue(s, i, j, acc) ==
  IF i >= j THEN acc ELSE DigitsValue(s, i + 1, j, acc * 10 + (s[i] - 48))

\* _match_number_unicode: -?(0|[1-9][0-9]*)(\.[0-9]+)?([eE][-+]?[0-9]+)?
match_number(s, start) ==
  LET neg == s[start] = 45
      i0 == IF neg THEN start + 1 ELSE start
  IN IF i0 > Len(s) THEN ParseFail
     ELSE IF ~IsDigit(s[i0]) THEN ParseFail
     ELSE LET i1 == IF s[i0] = 48 THEN i0 + 1 ELSE SkipDigits(s, i0 + 1)
              frac == i1 < Len(s) /\ s[i1] = 46 /\ IsDigit(s[i1 + 1])
              i2 == IF frac THEN SkipDigits(s, i1 + 2) ELSE i1
              e1 == IF i2 + 1 < Len(s) /\ s[i2 + 1] \in {43, 45} THEN i2 + 2 ELSE i2 + 1
              exp == i2 < Len(s) /\ s[i2] \in {101, 69}
                     /\ SkipDigits(s, e1) > e1
              i3 == IF exp THEN SkipDigits(s, e1) ELSE i2
          IN IF frac \/ exp
             THEN ParseOk(JFloat(SubSeq(s, start, i3 - 1)), i3)
             ELSE ParseOk(JInt((IF neg THEN -1 ELSE 1) * DigitsValue(s, i0, i1, 0)), i1)

\* does s hold the literal lit at index i, with the room the scanner asks for
HasToken(s, i, lit) ==
  /\ i + Len(lit) - 1 <= Len(s)
  /\ \A k \in 1..Len(lit) : s[i + k - 1] = lit[k]

T_null == <<110, 117, 108, 108>>
T_true == <<116, 114, 117, 101>>
T_false == <<102, 97, 108, 115, 101>>
T_NaN == <<78, 97, 78>>
T_Infinity == <<73, 110, 102, 105, 110, 105, 116, 121>>
T_NegInfinity == <<45, 73, 110, 102, 105, 110, 105, 116, 121>>

RECURSIVE scan_once(_, _)
RECURSIVE parse_object(_, _, _)
RECURSIVE parse_array(_, _, _)

\* _parse_object_unicode: i is the index of a key's opening quote
parse_object(s, i, pairs) ==
  IF i > Len(s) \/ s[i] # 34 THEN ParseFail
  ELSE LET key == scanstring(s, i + 1, <<>>) IN
    IF ~key.ok THEN ParseFail
    ELSE LET c == SkipWs(s, key.next) IN
      IF c > Len(s) \/ s[c] # 58 THEN ParseFail
      ELSE LET val == scan_once(s, SkipWs(s, c + 1)) IN
        IF ~val.ok THEN ParseFail
        ELSE LET d == SkipWs(s, val.next)
                 got == DictSet(pairs, key.val, val.val)
             IN IF d > Len(s) THEN ParseFail
                ELSE IF s[d] = 125 THEN ParseOk(JDict(got), d + 1)
                ELSE IF s[d] = 44 THEN parse_object(s, SkipWs(s, d + 1), got)
                ELSE ParseFail

\* _parse_array_unicode: i is the index of an element
parse_array(s, i, items) ==
  LET val == scan_once(s, i) IN
  IF ~val.ok THEN ParseFail
  ELSE LET d == SkipWs(s, val.next)
           got == Append(items, val.val)
       IN IF d > Len(s) THEN ParseFail
          ELSE IF s[d] = 93 THEN ParseOk(JList(got), d + 1)
          ELSE IF s[d] = 44 THEN parse_array(s, SkipWs(s, d + 1), got)
          ELSE ParseFail

\* scan_once_unicode
scan_once(s, i) ==
  IF i > Len(s) THEN ParseFail
  ELSE LET c == s[i] IN
    IF c = 34 THEN
      LET r == scanstring(s, i + 1, <<>>) IN
      IF r.ok THEN ParseOk(JStr(r.val), r.next) ELSE ParseFail
    ELSE IF c = 123 THEN
      LET j == SkipWs(s, i + 1) IN
      IF j <= Len(s) /\ s[j] = 125 THEN ParseOk(JDict(<<>>), j + 1)
      ELSE parse_object(s, j, <<>>)
    ELSE IF c = 91 THEN
      LET j == SkipWs(s, i + 1) IN
      IF j <= Len(s) /\ s[j] = 93 THEN ParseOk(JList(<<>>), j + 1)
      ELSE parse_array(s, j, <<>>)
    ELSE IF HasToken(s, i, T_null) THEN ParseOk(JConst(T_null), i + 4)
    ELSE IF HasToken(s, i, T_true) THEN ParseOk(JConst(T_true), i + 4)
    ELSE IF HasToken(s, i, T_false) THEN ParseOk(JConst(T_false), i + 5)
    ELSE IF HasToken(s, i, T_NaN) THEN ParseOk(JConst(T_NaN), i + 3)
    ELSE IF HasToken(s, i, T_Infinity) THEN ParseOk(JConst(T_Infinity), i + 8)
    ELSE IF HasToken(s, i, T_NegInfinity) THEN ParseOk(JConst(T_NegInfinity), i + 9)
    ELSE IF c = 45 \/ IsDigit(c) THEN match_number(s, i)
    ELSE ParseFail

\* json.loads: a leading BOM is refused, blanks around the value are
\* skipped, anything after it is "Extra data"
json_loads(s) ==
  IF Len(s) > 0 /\ s[1] = 65279 THEN ParseFail
  ELSE LET r == scan_once(s, SkipWs(s, 1)) IN
    IF ~r.ok THEN ParseFail
    ELSE IF SkipWs(s, r.next) # Len(s) + 1 THEN ParseFail
    ELSE r

(***************************************************************************)
(* generate_astrovpn_url and decode_astrovpn_url                            *)
(***************************************************************************)
\* startswith that ignores the case of letters
Lower(c) == IF c >= 65 /\ c <= 90 THEN c + 32 ELSE c
startswith_nocase(s, prefix) ==
  /\ Len(s) >= Len(prefix)
  /\ \A k \in 1..Len(prefix) : Lower(s[k]) = Lower(prefix[k])

\* str.startswith
startswith(s, prefix) ==
  Len(s) >= Len(prefix) /\ SubSeq(s, 1, Len(prefix)) = prefix

\* generate_astrovpn_url keeping a module-level count of its calls and
\* numbering the name with it
generate_astrovpn_url_numbered(name, server, domain_service, key_url, description) ==
  LET profile == JDict(<< <<K_name, JStr(name \o [k \in 1..Len(calls) |-> 43])>>,
                          <<K_server, JStr(server)>>,
                          <<K_domain_service, JStr(domain_service)>>,
                          <<K_key_url, JStr(key_url)>>,
                          <<K_description, JStr(description)>> >>)
  IN [ok |-> TRUE,
      url |-> SCHEME \o b64encode(utf8_encode(json_dumps(profile)).bytes)]

\* [ok, url]: ok is FALSE when a call of the body raises
generate_astrovpn_url(name, server, domain_service, key_url, description) ==
  LET profile == JDict(<< <<K_name, JStr(name)>>,
                          <<K_server, JStr(server)>>,
                          <<K_domain_service, JStr(domain_service)>>,
                          <<K_key_url, JStr(key_url)>>,
                          <<K_description, JStr(description)>> >>)
      json_str == json_dumps(profile)
      raw == utf8_encode(json_str)
  IN IF ~raw.ok THEN [ok |-> FALSE, url |-> <<>>]
     ELSE [ok |-> TRUE, url |-> SCHEME \o b64encode(raw.bytes)]

\* the decoder leaving by an exception raised at site
Raised(site) == [ok |-> FALSE, raised_by |-> site, profile |-> <<>>]

HasKey(pairs, k) == \E i \in 1..Len(pairs) : pairs[i][1] = k

\* decode_astrovpn_url insisting on the four required keys
decode_astrovpn_url_required(url) ==
  IF ~startswith(url, SCHEME) THEN Raised("scheme")
  ELSE LET raw == b64decode(SubSeq(url, Len(SCHEME) + 1, Len(url))) IN
    IF ~raw.ok THEN Raised("b64decode")
    ELSE LET decoded == utf8_decode(raw.bytes) IN
      IF ~decoded.ok THEN Raised("utf-8")
      ELSE LET parsed == json_loads(decoded.text) IN
        IF ~parsed.ok THEN Raised("json.loads")
        ELSE IF parsed.val.t # "dict"
                \/ \E k \in {K_name, K_server, K_domain_service, K_key_url} :
                     ~HasKey(parsed.val.v, k)
          THEN Raised("required")
        ELSE [ok |-> TRUE, raised_by |-> "", profile |-> parsed.val]

\* [ok, raised_by, profile]: raised_by names the statement that raised:
\*   "scheme"     the ValueError of line 32
\*   "b64decode"  binascii.Error / ValueError out of base64.b64decode
\*   "utf-8"      UnicodeDecodeError out of bytes.decode
\*   "json.loads" json.JSONDecodeError
decode_astrovpn_url(url) ==
  IF ~startswith(url, SCHEME) THEN Raised("scheme")
  ELSE LET encoded == SubSeq(url, Len(SCHEME) + 1, Len(url))
           raw == b64decode(encoded)
       IN IF ~raw.ok THEN Raised("b64decode")
          ELSE LET decoded == utf8_decode(raw.bytes) IN
            IF ~decoded.ok THEN Raised("utf-8")
            ELSE LET parsed == json_loads(decoded.text) IN
              IF ~parsed.ok THEN Raised("json.loads")
              ELSE [ok |-> TRUE, raised_by |-> "", profile |-> parsed.val]

(***************************************************************************)
(* The inputs: argument vectors of the script and arguments of library     *)
(* calls.                                                                  *)
(***************************************************************************)
SeqsUpTo(S, n) == UNION {[1..k -> S] : k \in 0..n}

\* a  "  \  e-acute  U+1F600
FieldChars == {97, 34, 92, 233, 128512}
Names == SeqsUpTo(FieldChars, MaxNameLen)
Servers == {<<>>, <<98>>}
DomainServices == {<<>>, <<99, 47>>}
KeyUrls == {<<>>, <<100>>}
Descriptions == {<<>>, <<101>>}

\* {  }  "  5  blank  and the two bytes of e-acute in UTF-8
RawBytes == {123, 125, 34, 53, 32, 195, 169}
RawTexts == SeqsUpTo(RawBytes, MaxRawLen)

\* records a payload may hold: {"server":"x"}, {}, {"name":"","server":"x"},
\* and a whole profile
TestRecords ==
  { JDict(<< <<K_server, JStr(<<120>>)>> >>),
    JDict(<<>>),
    JDict(<< <<K_name, JStr(<<>>)>>, <<K_server, JStr(<<120>>)>> >>),
    JDict(<< <<K_name, JStr(<<65>>)>>, <<K_server, JStr(<<98>>)>>,
             <<K_domain_service, JStr(<<99, 47>>)>>, <<K_key_url, JStr(<<100>>)>>,
             <<K_description, JStr(<<>>)>> >>) }

PayloadOf(rec) == utf8_encode(json_dumps(rec)).bytes

\* {"a":1}  [1]  null  "x"  {"a":"b","a":"c"}  {} x  and the byte 0xFF
OtherTexts ==
  { <<123, 34, 97, 34, 58, 49, 125>>, <<91, 49, 93>>, <<110, 117, 108, 108>>,
    <<34, 120, 34>>,
    <<123, 34, 97, 34, 58, 34, 98, 34, 44, 34, 97, 34, 58, 34, 99, 34, 125>>,
    <<123, 125, 32, 120>>, <<255>> }

PayloadTexts == RawTexts \cup {PayloadOf(rec) : rec \in TestRecords} \cup OtherTexts

RECURSIVE StripPad(_)
StripPad(e) ==
  IF Len(e) > 0 /\ e[Len(e)] = 61 THEN StripPad(SubSeq(e, 1, Len(e) - 1)) ELSE e

\* what may follow the scheme: the encoding of a payload text, the same
\* with a '!' put in after its first character, with its padding cut off,
\* and with "=x" added
Encodings(text) ==
  LET e == b64encode(text) IN
  { e,
    IF Len(e) = 0 THEN <<33>> ELSE <<e[1], 33>> \o SubSeq(e, 2, Len(e)),
    StripPad(e),
    e \o <<61, 120>> }

\* not-valid-base64!!!  and a lone e-acute
OtherRemainders ==
  { <<110, 111, 116, 45, 118, 97, 108, 105, 100, 45, 98, 97, 115, 101, 54, 52, 33, 33, 33>>,
    <<233>> }

Remainders == (UNION {Encodings(text) : text \in PayloadTexts}) \cup OtherRemainders

\* astrovpn://  ASTROVPN://  astrovpn:/  and nothing
Schemes ==
  { SCHEME, <<65, 83, 84, 82, 79, 86, 80, 78, 58, 47, 47>>,
    <<97, 115, 116, 114, 111, 118, 112, 110, 58, 47>>, <<>> }

Urls == {sch \o rem : sch \in Schemes, rem \in Remainders}

\* sys.argv[0]
PROG == <<112>>
\* "help", "Generate": first tokens that are no command
OtherCommands == { <<104, 101, 108, 112>>, <<71, 101, 110, 101, 114, 97, 116, 101>>, <<>> }

GenerateArgs ==
  { <<n, s, d, k>> : n \in Names, s \in Servers, d \in DomainServices, k \in KeyUrls }

ArgvSet ==
  {<<PROG>>}
  \cup { <<PROG, c>> : c \in OtherCommands \cup {CMD_GENERATE, CMD_DECODE} }
  \cup { <<PROG, c, <<65>>, <<98>>, <<99>> >> : c \in OtherCommands \cup {CMD_GENERATE} }
  \cup { <<PROG, CMD_GENERATE>> \o g : g \in GenerateArgs }
  \cup { <<PROG, CMD_GENERATE>> \o g \o <<e>> : g \in GenerateArgs, e \in Descriptions }
  \cup { <<PROG, CMD_GENERATE>> \o g \o <<e, <<120>> >> :
           g \in {x \in GenerateArgs : x[1] = <<>>}, e \in Descriptions }
  \cup { <<PROG, CMD_DECODE, u>> : u \in Urls }
  \cup { <<PROG, CMD_DECODE, u, <<120>> >> : u \in {SCHEME \o b64encode(<<123, 125>>)} }

\* arguments of library calls in an interpreter session
LibFields ==
  { <<n, <<98>>, <<99, 47>>, <<100>>, e>> : n \in {<<>>, <<97>>, <<34>>}, e \in Descriptions }
LibUrls ==
  { generate_astrovpn_url(f[1], f[2], f[3], f[4], f[5]).url : f \in LibFields }
  \cup { SCHEME \o b64encode(PayloadOf(rec)) : rec \in TestRecords }
  \cup { <<>>, SCHEME, SCHEME \o <<101, 51, 33, 48, 61>>, SCHEME \o <<78, 81, 61, 61>> }

(***************************************************************************)
(* The script as a state machine: initial state and steps.                 *)
(***************************************************************************)
Out(line, arg) == [line |-> line, arg |-> arg]
Call(fn, args, ret) == [fn |-> fn, args |-> args, ret |-> ret]

Init ==
  /\ \/ pc = "main" /\ argv \in ArgvSet
     \/ pc = "imported" /\ argv = <<>>
  /\ stdout = <<>>
  /\ exit_status = -1
  /\ branches = <<>>
  /\ calls = <<>>

\* the conditions main() tests to choose its branch, on sys.argv
\* line 41
NoCommand == Len(argv) < 2
\* line 53
IsGenerate == ~NoCommand /\ argv[2] = CMD_GENERATE
\* line 54
GenerateTooFewArgs == Len(argv) < 6
\* line 73
IsDecode == ~NoCommand /\ ~IsGenerate /\ argv[2] = CMD_DECODE
\* line 74
DecodeTooFewArgs == Len(argv) < 3
\* line 88
IsUnknown == ~NoCommand /\ ~IsGenerate /\ ~IsDecode

\* lines 41-49
Usage ==
  /\ pc = "main"
  /\ NoCommand
  /\ stdout' = [i \in 1..7 |-> Out(41 + i, <<>>)]
  /\ exit_status' = 1
  /\ pc' = "exited"
  /\ branches' = Append(branches, "usage")
  /\ UNCHANGED <<argv, calls>>

\* lines 53-56
GenerateTooFew ==
  /\ pc = "main"
  /\ IsGenerate
  /\ GenerateTooFewArgs
  /\ stdout' = <<Out(55, <<>>)>>
  /\ exit_status' = 1
  /\ pc' = "exited"
  /\ branches' = Append(branches, "generate")
  /\ UNCHANGED <<argv, calls>>

\* lines 53, 58-71
Generate ==
  /\ pc = "main"
  /\ IsGenerate
  /\ ~GenerateTooFewArgs
  /\ LET name == argv[3]
         server == argv[4]
         domain_service == argv[5]
         key_url == argv[6]
         description == IF Len(argv) > 6 THEN argv[7] ELSE <<>>
         r == generate_astrovpn_url(name, server, domain_service, key_url, description)
     IN /\ calls' = Append(calls, Call("generate",
                      <<name, server, domain_service, key_url, description>>, r))
        /\ IF r.ok
           THEN /\ stdout' = <<Out(66, <<>>), Out(67, r.url), Out(68, Len(r.url))>>
                /\ exit_status' = 0
           ELSE /\ stdout' = <<Out(70, <<>>)>>
                /\ exit_status' = 1
  /\ pc' = "exited"
  /\ branches' = Append(branches, "generate")
  /\ UNCHANGED argv

\* lines 73-76
DecodeTooFew ==
  /\ pc = "main"
  /\ IsDecode
  /\ DecodeTooFewArgs
  /\ stdout' = <<Out(75, <<>>)>>
  /\ exit_status' = 1
  /\ pc' = "exited"
  /\ branches' = Append(branches, "decode")
  /\ UNCHANGED <<argv, calls>>

\* Decode whose except clause prints and does not exit
Decode_no_exit ==
  /\ pc = "main"
  /\ Len(argv) >= 3
  /\ argv[2] = CMD_DECODE
  /\ LET r == decode_astrovpn_url(argv[3])
     IN /\ calls' = Append(calls, Call("decode", <<argv[3]>>, r))
        /\ stdout' = IF r.ok THEN <<Out(82, <<>>), Out(83, r.profile)>>
                     ELSE <<Out(85, r.raised_by)>>
  /\ exit_status' = 0
  /\ pc' = "exited"
  /\ branches' = Append(branches, "decode")
  /\ UNCHANGED argv

\* Decode printing its header before the decoder is called
Decode_header_first ==
  /\ pc = "main"
  /\ Len(argv) >= 3
  /\ argv[2] = CMD_DECODE
  /\ LET r == decode_astrovpn_url(argv[3])
     IN /\ calls' = Append(calls, Call("decode", <<argv[3]>>, r))
        /\ stdout' = IF r.ok THEN <<Out(82, <<>>), Out(83, r.profile)>>
                     ELSE <<Out(82, <<>>), Out(85, r.raised_by)>>
        /\ exit_status' = IF r.ok THEN 0 ELSE 1
  /\ pc' = "exited"
  /\ branches' = Append(branches, "decode")
  /\ UNCHANGED argv

\* Decode trying again after a failure of the decoder
Decode_retry ==
  /\ pc = "main"
  /\ Len(argv) >= 3
  /\ argv[2] = CMD_DECODE
  /\ Len(calls) < MaxCalls
  /\ LET r == decode_astrovpn_url(argv[3])
     IN /\ calls' = Append(calls, Call("decode", <<argv[3]>>, r))
        /\ stdout' = IF r.ok THEN <<Out(82, <<>>), Out(83, r.profile)>>
                     ELSE Append(stdout, Out(85, r.raised_by))
        /\ exit_status' = IF r.ok THEN 0 ELSE exit_status
        /\ pc' = IF r.ok THEN "exited" ELSE "main"
  /\ branches' = Append(branches, "decode")
  /\ UNCHANGED argv

\* lines 73, 78-86
Decode ==
  /\ pc = "main"
  /\ IsDecode
  /\ ~DecodeTooFewArgs
  /\ LET url == argv[3]
         r == decode_astrovpn_url(url)
     IN /\ calls' = Append(calls, Call("decode", <<url>>, r))
        /\ IF r.ok
           THEN /\ stdout' = <<Out(82, <<>>), Out(83, r.profile)>>
                /\ exit_status' = 0
           ELSE /\ stdout' = <<Out(85, r.raised_by)>>
                /\ exit_status' = 1
  /\ pc' = "exited"
  /\ branches' = Append(branches, "decode")
  /\ UNCHANGED argv

\* lines 88-90
UnknownCommand ==
  /\ pc = "main"
  /\ IsUnknown
  /\ stdout' = <<Out(89, argv[2])>>
  /\ exit_status' = 1
  /\ pc' = "exited"
  /\ branches' = Append(branches, "unknown")
  /\ UNCHANGED argv
  /\ UNCHANGED calls

\* a call of generate_astrovpn_url from an importing program
CallGenerate ==
  /\ pc = "imported"
  /\ Len(calls) < MaxCalls
  /\ \E f \in LibFields :
       calls' = Append(calls, Call("generate", f,
                  generate_astrovpn_url(f[1], f[2], f[3], f[4], f[5])))
  /\ UNCHANGED <<argv, pc, stdout, exit_status, branches>>

\* a call of decode_astrovpn_url from an importing program
CallDecode ==
  /\ pc = "imported"
  /\ Len(calls) < MaxCalls
  /\ \E u \in LibUrls :
       calls' = Append(calls, Call("decode", <<u>>, decode_astrovpn_url(u)))
  /\ UNCHANGED <<argv, pc, stdout, exit_status, branches>>

main == Usage \/ GenerateTooFew \/ Generate \/ DecodeTooFew \/ Decode \/ UnknownCommand

Next == main \/ CallGenerate \/ CallDecode

Spec == Init /\ [][Next]_vars

(***************************************************************************)
(* The properties.                                                         *)
(***************************************************************************)
GenCalls == {i \in 1..Len(calls) : calls[i].fn = "generate"}
DecCalls == {i \in 1..Len(calls) : calls[i].fn = "decode"}

\* the record of five fields a call of the encoder was given
FieldsOf(args) ==
  JDict(<< <<K_name, JStr(args[1])>>, <<K_server, JStr(args[2])>>,
           <<K_domain_service, JStr(args[3])>>, <<K_key_url, JStr(args[4])>>,
           <<K_description, JStr(args[5])>> >>)

\* url begins with the letters a s t r o v p n : / /, in this case
HasScheme(url) ==
  /\ Len(url) >= 11
  /\ <<url[1], url[2], url[3], url[4], url[5], url[6], url[7], url[8]>>
       = <<97, 115, 116, 114, 111, 118, 112, 110>>
  /\ <<url[9], url[10], url[11]>> = <<58, 47, 47>>

AfterScheme(url) == SubSeq(url, 12, Len(url))

\* the error conditions of the decoder
InvalidScheme(r) == ~r.ok /\ r.raised_by = "scheme"
MalformedEncoding(r) == ~r.ok /\ r.raised_by = "b64decode"
MalformedPayload(r) == ~r.ok /\ r.raised_by \in {"utf-8", "json.loads"}

\* C1: round trip. Decoding the URL the encoder returned for five fields
\* gives a record of exactly these five fields with these values, in
\* every call of the encoder (by the generate command or by an importer).
C1_RoundTrip ==
  \A i \in GenCalls :
    /\ calls[i].ret.ok
    /\ LET d == decode_astrovpn_url(calls[i].ret.url) IN
         d.ok /\ d.profile = FieldsOf(calls[i].args)

\* C1 witness: the generate command has encoded a name holding a quote and
\* a character outside the BMP, with a description
C1_Witness ==
  /\ pc = "exited"
  /\ \E i \in GenCalls :
       calls[i].args[1] = <<34, 128512>> /\ calls[i].args[5] = <<101>>

\* e is base64 as the standard writes it: only letters of the alphabet, in
\* groups of four, '=' only as the last or the last two characters
StrictBase64(e) ==
  /\ Len(e) % 4 = 0
  /\ \A k \in 1..Len(e) :
       \/ B64Value(e[k]) < 64
       \/ e[k] = 61 /\ k >= Len(e) - 1 /\ (k = Len(e) - 1 => e[Len(e)] = 61)

\* C2: every URL with the scheme whose remainder is not valid base64 (a
\* character outside the alphabet, wrong padding) makes the decoder fail
\* with MalformedEncoding. Violated: base64.b64decode drops characters
\* outside the alphabet and stops at the first complete padding.
C2_MalformedEncoding ==
  \A i \in DecCalls :
    LET url == calls[i].args[1] IN
    (HasScheme(url) /\ ~StrictBase64(AfterScheme(url)))
      => MalformedEncoding(calls[i].ret)

\* the bytes b are a well-formed structured record: UTF-8 text that parses
\* to a key-value record
IsRecordPayload(b) ==
  LET text == utf8_decode(b) IN
  /\ text.ok
  /\ LET parsed == json_loads(text.text) IN parsed.ok /\ parsed.val.t = "dict"

\* C3: when the transform payload is valid and its bytes are not a
\* well-formed structured record the decoder fails with MalformedPayload,
\* and it returns a value only for a structured record. Violated: any JSON
\* value (a number, a string, a list, null) is returned.
C3_MalformedPayload ==
  \A i \in DecCalls :
    LET url == calls[i].args[1]
        raw == b64decode(AfterScheme(url))
    IN (HasScheme(url) /\ raw.ok) =>
         /\ ~IsRecordPayload(raw.bytes) => MalformedPayload(calls[i].ret)
         /\ calls[i].ret.ok => IsRecordPayload(raw.bytes)

\* C4: a URL that does not start with the exact scheme makes the decoder
\* fail with InvalidScheme, whatever follows: never a record, never one of
\* the two other errors.
C4_InvalidScheme ==
  \A i \in DecCalls :
    ~HasScheme(calls[i].args[1]) => calls[i].ret = Raised("scheme")

\* C4 witness: the decode command was given ASTROVPN://e30= (the scheme in
\* capitals before a decodable payload)
C4_Witness ==
  /\ pc = "exited"
  /\ \E i \in DecCalls :
       calls[i].args[1] = <<65, 83, 84, 82, 79, 86, 80, 78, 58, 47, 47, 101, 51, 48, 61>>

\* C5: no call of the encoder returns a URL for an empty required field.
\* Violated: the encoder and the generate command check no field.
C5_RequiredNonEmpty ==
  \A i \in GenCalls :
    calls[i].ret.ok => \A k \in 1..4 : calls[i].args[k] # <<>>

KeysOf(profile) == [k \in 1..Len(profile.v) |-> profile.v[k][1]]

GenerateSucceeds ==
  /\ Len(argv) - 1 >= 1 /\ argv[2] = CMD_GENERATE
  /\ Len(argv) - 2 >= 4
  /\ generate_astrovpn_url(argv[3], argv[4], argv[5], argv[6],
       IF Len(argv) - 2 >= 5 THEN argv[7] ELSE <<>>).ok
DecodeSucceeds ==
  /\ Len(argv) - 1 >= 1 /\ argv[2] = CMD_DECODE
  /\ Len(argv) - 2 >= 1
  /\ decode_astrovpn_url(argv[3]).ok

\* C7: the script exits with status 0 exactly when it was asked for an
\* encoding with at least 4 arguments that succeeds or a decoding with at
\* least 1 argument that succeeds, and with status 1 for every other
\* argument vector.
C7_ExitStatus ==
  pc = "exited" =>
    /\ exit_status \in {0, 1}
    /\ exit_status = 0 <=> (GenerateSucceeds \/ DecodeSucceeds)

\* C7 witness: a decode command that has exited with success
C7_Witness ==
  pc = "exited" /\ exit_status = 0 /\ branches = <<"decode">>

\* the prints of a result: the URL header, the URL, its length, the record
\* header, the record
ResultLines == {66, 67, 68, 82, 83}

\* C8: a run that exits with failure has printed no result line; the
\* result lines are printed only by runs that exit with success.
C8_NoPartialResult ==
  (\E k \in 1..Len(stdout) : stdout[k].line \in ResultLines)
    => pc = "exited" /\ exit_status = 0

\* C8 witness: a decode command whose payload decoded but did not parse has
\* exited with failure
C8_Witness ==
  /\ pc = "exited" /\ exit_status = 1
  /\ \E i \in DecCalls : calls[i].ret.raised_by = "json.loads"

\* C9: the decoder returns a payload that is a structured record as it is
\* parsed, with nothing checked, added or removed: every record of
\* TestRecords, some lacking required fields or holding empty ones, comes
\* back equal when its encoding is decoded.
C9_NoFieldValidation ==
  \A i \in DecCalls :
    LET url == calls[i].args[1] IN
    /\ \A rec \in TestRecords :
         url = SCHEME \o b64encode(PayloadOf(rec))
           => calls[i].ret.ok /\ calls[i].ret.profile = rec
    /\ (HasScheme(url) /\ b64decode(AfterScheme(url)).ok
          /\ IsRecordPayload(b64decode(AfterScheme(url)).bytes))
         => /\ calls[i].ret.ok
            /\ calls[i].ret.profile
                 = json_loads(utf8_decode(b64decode(AfterScheme(url)).bytes).text).val

\* C9 witness: the decode command was given the encoding of {"server":"x"}
C9_Witness ==
  /\ pc = "exited"
  /\ \E i \in DecCalls :
       calls[i].args[1] = SCHEME \o b64encode(PayloadOf(JDict(<< <<K_server, JStr(<<120>>)>> >>)))

\* the number of branches of main() whose condition holds
BranchesOpen ==
  (IF NoCommand THEN 1 ELSE 0) + (IF IsGenerate THEN 1 ELSE 0)
  + (IF IsDecode THEN 1 ELSE 0) + (IF IsUnknown THEN 1 ELSE 0)

\* C10: a run takes exactly one branch, once, and ends. Before the branch,
\* the condition of exactly one branch holds and nothing was printed or
\* called; after it, one branch was entered, the encoder or decoder was
\* called at most once, the branch has printed, the status is set and no
\* step of main() remains.
C10_OneBranchOnce ==
  /\ pc = "main" =>
       /\ branches = <<>> /\ calls = <<>> /\ stdout = <<>>
       /\ BranchesOpen = 1
  /\ pc = "exited" =>
       /\ Len(branches) = 1
       /\ Len(calls) <= 1
       /\ stdout # <<>>
       /\ exit_status \in {0, 1}
       /\ ~ENABLED main

\* C10 witness: a decode command has failed in the decoder and exited
C10_Witness ==
  /\ pc = "exited"
  /\ branches = <<"decode">>
  /\ Len(calls) = 1 /\ ~calls[1].ret.ok

====
